---- MODULE Spec2Model ----
(***************************************************************************)
(* Model of dashboard_cot_gold_2025.py: a Streamlit script that fetches    *)
(* the CFTC Commitments-of-Traders feed, filters it to one instrument,     *)
(* aggregates it per report date and renders the result.  The script is    *)
(* re-executed in full on every user interaction; the only state that      *)
(* survives an execution is the st.cache_data store of buscar_dados_cot.   *)
(***************************************************************************)
EXTENDS Integers, Sequences, FiniteSets, TLC

VARIABLES
    dados,      \* the provider's dataset, newest report first ($order=... DESC)
    cache,      \* st.cache_data store of buscar_dados_cot: ativo_nome -> entry
    agora,      \* wall clock, in seconds
    ticks,      \* number of clock advances so far
    hist,       \* one record per past execution of the script, oldest first
    calc        \* the last execution of the script in a fresh process

vars == <<dados, cache, agora, ticks, hist, calc>>

(***************************************************************************)
(* Bounds of the model.                                                    *)
(***************************************************************************)
MaxRelatorios == 5      \* weekly reports the provider publishes at most
MaxSemanas == 6         \* largest week count offered (the slider goes to 52)
MaxTicks == 2           \* clock advances
MaxRuns == 2            \* executions of the script recorded in hist

(***************************************************************************)
(* Program constants.                                                      *)
(***************************************************************************)
ttl == 3600 * 24
limit == 1000
min_value == 4
step == 2

Min(a, b) == IF a < b THEN a ELSE b

(***************************************************************************)
(* Text.  A string is a sequence of one-character strings.                 *)
(***************************************************************************)
Lowers == <<"a","b","c","d","e","f","g","h","i","j","k","l","m",
            "n","o","p","q","r","s","t","u","v","w","x","y","z">>
Uppers == <<"A","B","C","D","E","F","G","H","I","J","K","L","M",
            "N","O","P","Q","R","S","T","U","V","W","X","Y","Z">>

\* case folding of one character, as re.IGNORECASE compares them
fold(c) ==
    IF \E i \in 1..Len(Lowers) : Lowers[i] = c
    THEN Uppers[CHOOSE i \in 1..Len(Lowers) : Lowers[i] = c]
    ELSE c

\* Series.str.contains(pat, case=False) on one non-null value
contains(texto, pat) ==
    \E i \in 0..(Len(texto) - Len(pat)) :
        \A j \in 1..Len(pat) : fold(texto[i + j]) = fold(pat[j])

Digits == <<"0","1","2","3","4","5","6","7","8","9">>

\* int(text) of a decimal numeral
RECURSIVE astype_int(_)
astype_int(texto) ==
    IF texto = <<>> THEN 0
    ELSE 10 * astype_int(SubSeq(texto, 1, Len(texto) - 1))
         + (CHOOSE d \in 0..9 : Digits[d + 1] = texto[Len(texto)])

\* pd.to_datetime of an ISO date <<year, month, day>>: a point on the time
\* line, ordered as the calendar is
to_datetime(iso) == (iso[1] * 12 + (iso[2] - 1)) * 31 + iso[3]

(***************************************************************************)
(* The instruments of the selectbox (three of the ten entries: two with a  *)
(* match string, and the HK50 placeholder).                                *)
(***************************************************************************)
GOLD == <<"G","O","L","D">>
BITCOIN == <<"B","I","T","C","O","I","N">>

Ativos == {"GOLD", "BTC (Bitcoin)", "HK50 (Hang Seng)"}

ativos_disponiveis(ativo) ==
    CASE ativo = "GOLD" -> [none |-> FALSE, nome |-> GOLD]
      [] ativo = "BTC (Bitcoin)" -> [none |-> FALSE, nome |-> BITCOIN]
      [] ativo = "HK50 (Hang Seng)" -> [none |-> TRUE, nome |-> <<>>]

\* the values of the week-count slider
NumSemanas == {n \in min_value..MaxSemanas : (n - min_value) % step = 0}

(***************************************************************************)
(* The provider.  Every week it publishes one report: the rows of that     *)
(* report date, one per market.  A JSON row is a record; a row whose       *)
(* market name is null comes without the market_and_exchange_names key.    *)
(***************************************************************************)
Datas == << <<2025, 1, 7>>, <<2025, 1, 14>>, <<2025, 1, 21>>, <<2025, 1, 28>>,
            <<2025, 2, 4>>, <<2025, 2, 11>>, <<2025, 2, 18>>, <<2025, 2, 25>>,
            <<2025, 3, 4>>, <<2025, 3, 11>> >>

GoldComex == <<"G","O","L","D"," ","-"," ","C","O","M","E","X">>
MicroGold == <<"M","i","c","r","o"," ","G","o","l","d">>
Silver == <<"S","I","L","V","E","R">>
BitcoinCme == <<"B","i","t","c","o","i","n"," ","-"," ","C","M","E">>

Linha(nome, w, long, short, oi) ==
    [market_and_exchange_names |-> nome,
     report_date_as_yyyy_mm_dd |-> Datas[w],
     noncomm_positions_long_all |-> long,
     noncomm_positions_short_all |-> short,
     open_interest_all |-> oi]

LinhaSemNome(w, long, short, oi) ==
    [report_date_as_yyyy_mm_dd |-> Datas[w],
     noncomm_positions_long_all |-> long,
     noncomm_positions_short_all |-> short,
     open_interest_all |-> oi]

\* the reports the provider may publish for week w
RelatoriosSemanais(w) ==
    { << Linha(Silver, w, <<"7">>, <<"2">>, <<"1","1">>) >>,
      << Linha(GoldComex, w, <<"5">>, <<"1">>, <<"9">>) >>,
      << Linha(GoldComex, w, <<"1">>, <<"5">>, <<"8">>) >>,
      << Linha(MicroGold, w, <<"1","2">>, <<"3">>, <<"2","0">>),
         LinhaSemNome(w, <<"4">>, <<"4">>, <<"9">>),
         Linha(GoldComex, w, <<"5">>, <<"1">>, <<"9">>) >>,
      << Linha(BitcoinCme, w, <<"2">>, <<"6">>, <<"1","0">>),
         Linha(GoldComex, w, <<"1">>, <<"5">>, <<"8">>) >> }

\* the report of week w in a session of the dashboard
RelatorioDaSemana(w) ==
    CASE w % 3 = 1 -> << Linha(GoldComex, w, <<"5">>, <<"1">>, <<"9">>),
                         Linha(MicroGold, w, <<"1">>, <<"5">>, <<"7">>) >>
      [] w % 3 = 2 -> << Linha(GoldComex, w, <<"1">>, <<"5">>, <<"8">>),
                         LinhaSemNome(w, <<"4">>, <<"4">>, <<"9">>) >>
                      \o (IF w > 3 THEN << Linha(BitcoinCme, w, <<"2">>, <<"6">>,
                                                 <<"1","0">>) >>
                          ELSE <<>>)
      [] OTHER -> << Linha(MicroGold, w, <<"1","2">>, <<"3">>, <<"2","0">>) >>

(***************************************************************************)
(* The HTTP exchange of line 33.  The endpoint answers with the newest     *)
(* limit rows or with an empty array, or the request fails.                *)
(***************************************************************************)
Respostas(ds) ==
    { [erro |-> "nenhum", status |-> 200, json |-> SubSeq(ds, 1, Min(Len(ds), limit))],
      [erro |-> "nenhum", status |-> 200, json |-> <<>>],
      [erro |-> "nenhum", status |-> 500, json |-> <<>>],
      [erro |-> "Timeout", status |-> 0, json |-> <<>>] }

\* as RequestException, without the raise_for_status() of line 34
RequestException_sem_status(resposta) == resposta.erro # "nenhum"

\* requests.get raised, or raise_for_status() raises on a 4xx/5xx status
RequestException(resposta) ==
    resposta.erro # "nenhum" \/ (resposta.status >= 400 /\ resposta.status < 600)

(***************************************************************************)
(* The pandas steps of buscar_dados_cot.  A DataFrame is the sequence of   *)
(* its rows.                                                               *)
(***************************************************************************)
\* dados['market_and_exchange_names'] raises KeyError when no row of the
\* payload carries the key: the frame then has no such column
KeyError(json) ==
    \A i \in 1..Len(json) : "market_and_exchange_names" \notin DOMAIN json[i]

\* .str.contains(ativo_nome, case=False, na=False) on one row
casa(linha, ativo_nome) ==
    IF "market_and_exchange_names" \in DOMAIN linha
    THEN contains(linha.market_and_exchange_names, ativo_nome)
    ELSE FALSE

\* dados[mask]: the matching rows, in payload order
filtrar(json, ativo_nome) == SelectSeq(json, LAMBDA linha : casa(linha, ativo_nome))

\* the typed columns of lines 48-51
converter(linha) ==
    [Data |-> to_datetime(linha.report_date_as_yyyy_mm_dd),
     Longs |-> astype_int(linha.noncomm_positions_long_all),
     Shorts |-> astype_int(linha.noncomm_positions_short_all),
     OpenInterest |-> astype_int(linha.open_interest_all)]

tipar(df) == [i \in 1..Len(df) |-> converter(df[i])]

\* as soma, with 'first' for 'sum' in the agg of lines 54-58
soma_first(df, d, coluna) ==
    LET i == CHOOSE k \in 1..Len(df) :
                 df[k].Data = d /\ \A m \in 1..(k - 1) : df[m].Data # d
    IN IF \E k \in 1..Len(df) : df[k].Data = d THEN df[i][coluna] ELSE 0

\* the sum of a column over the rows of df whose Data is d
RECURSIVE soma(_, _, _)
soma(df, d, coluna) ==
    IF df = <<>> THEN 0
    ELSE (IF Head(df).Data = d THEN Head(df)[coluna] ELSE 0)
         + soma(Tail(df), d, coluna)

\* the elements of a finite set of integers, in ascending order
RECURSIVE ordenado(_)
ordenado(S) ==
    IF S = {} THEN <<>>
    ELSE LET m == CHOOSE x \in S : \A y \in S : x <= y
         IN <<m>> \o ordenado(S \ {m})

\* df.groupby('Data').agg(sum).reset_index(): one row per key, keys ascending
groupby_sum(df) ==
    LET chaves == ordenado({df[i].Data : i \in 1..Len(df)})
    IN [k \in 1..Len(chaves) |->
          [Data |-> chaves[k],
           Longs |-> soma(df, chaves[k], "Longs"),
           Shorts |-> soma(df, chaves[k], "Shorts"),
           OpenInterest |-> soma(df, chaves[k], "OpenInterest")]]

\* df['Liquida'] = df['Longs'] - df['Shorts']
com_liquida(df) ==
    [i \in 1..Len(df) |->
        [Data |-> df[i].Data, Longs |-> df[i].Longs, Shorts |-> df[i].Shorts,
         OpenInterest |-> df[i].OpenInterest,
         Liquida |-> df[i].Longs - df[i].Shorts]]

\* insertion of row r into a frame sorted by Data, after its equals
RECURSIVE inserir(_, _, _)
inserir(df, r, ascending) ==
    IF df = <<>> THEN <<r>>
    ELSE IF (ascending /\ r.Data < Head(df).Data)
            \/ (~ascending /\ r.Data > Head(df).Data)
         THEN <<r>> \o df
         ELSE <<Head(df)>> \o inserir(Tail(df), r, ascending)

\* df.sort_values('Data', ascending=...)
RECURSIVE sort_values(_, _)
sort_values(df, ascending) ==
    IF df = <<>> THEN <<>>
    ELSE inserir(sort_values(SubSeq(df, 1, Len(df) - 1), ascending),
                 df[Len(df)], ascending)

\* as head, with tail(n) for head(n) at line 62
head_tail(df, n) == SubSeq(df, Len(df) - Min(n, Len(df)) + 1, Len(df))

\* df.head(n)
head(df, n) == SubSeq(df, 1, Min(n, Len(df)))

\* df['Liquida'].diff().fillna(0).astype(int): each row minus the row above
\* it in the frame's current order, 0 for the first row
diff_fillna(df, i) == IF i = 1 THEN 0 ELSE df[i].Liquida - df[i - 1].Liquida

com_mudanca(df) ==
    [i \in 1..Len(df) |->
        [Data |-> df[i].Data, Longs |-> df[i].Longs, Shorts |-> df[i].Shorts,
         OpenInterest |-> df[i].OpenInterest, Liquida |-> df[i].Liquida,
         Mudanca |-> diff_fillna(df, i)]]

\* as calculos, with the diff of line 63 taken after the ascending sort
calculos_diff_crescente(agrupado, num_semanas) ==
    LET recente == head(sort_values(com_liquida(agrupado), FALSE), num_semanas)
    IN com_mudanca(sort_values(recente, TRUE))

\* lines 61-65 on the grouped frame
calculos(agrupado, num_semanas) ==
    LET recente == head(sort_values(com_liquida(agrupado), FALSE), num_semanas)
    IN sort_values(com_mudanca(recente), TRUE)

(***************************************************************************)
(* buscar_dados_cot, lines 30-65.  The week count is the script's global   *)
(* num_semanas, read at line 62.  The result tells what the call returned  *)
(* (None or a frame), the st elements it wrote, whether it raised, and the *)
(* intermediate frame of line 58.                                          *)
(***************************************************************************)
None == [none |-> TRUE, linhas |-> <<>>]
DataFrame(linhas) == [none |-> FALSE, linhas |-> linhas]

ErroRequisicao == [tipo |-> "error", texto |-> "Erro na requisicao da API"]
ErroNenhumDado(ativo_nome) ==
    [tipo |-> "error", texto |-> "Nenhum dado encontrado", para |-> ativo_nome]

buscar_dados_cot(ativo_nome, num_semanas, resposta) ==
    IF RequestException(resposta)
    THEN [ret |-> None, msgs |-> <<ErroRequisicao>>, raised |-> FALSE,
          agrupado |-> <<>>]
    ELSE IF KeyError(resposta.json)
    THEN [ret |-> None, msgs |-> <<>>, raised |-> TRUE, agrupado |-> <<>>]
    ELSE LET df == filtrar(resposta.json, ativo_nome)
         IN IF df = <<>>
            THEN [ret |-> None, msgs |-> <<ErroNenhumDado(ativo_nome)>>,
                  raised |-> FALSE, agrupado |-> <<>>]
            ELSE LET agrupado == groupby_sum(tipar(df))
                 IN [ret |-> DataFrame(calculos(agrupado, num_semanas)),
                     msgs |-> <<>>, raised |-> FALSE, agrupado |-> agrupado]

(***************************************************************************)
(* @st.cache_data(ttl=3600*24), line 29.  The store is keyed by the        *)
(* function's argument, ativo_nome.  An entry keeps the returned value and *)
(* the st elements the call wrote, which a hit replays; it is valid while  *)
(* it is younger than ttl.  A call that raises stores nothing.             *)
(***************************************************************************)
Chaves == {GOLD, BITCOIN}

EntradaVazia == [vazio |-> TRUE, valor |-> None, msgs |-> <<>>, guardado_em |-> 0]

CacheVazio == [k \in Chaves |-> EntradaVazia]

\* as valida, with the ttl left out of the expiry
valida_sem_ttl(entrada, t) == ~entrada.vazio /\ t < entrada.guardado_em

valida(entrada, t) == ~entrada.vazio /\ t < entrada.guardado_em + ttl

\* the cached call: [ret, msgs, raised, agrupado, http, origem, cache]
cache_data(store, t, ativo_nome, num_semanas, resposta) ==
    IF valida(store[ativo_nome], t)
    THEN [ret |-> store[ativo_nome].valor, msgs |-> store[ativo_nome].msgs,
          raised |-> FALSE, agrupado |-> <<>>, http |-> 0,
          origem |-> store[ativo_nome].guardado_em, cache |-> store]
    ELSE LET r == buscar_dados_cot(ativo_nome, num_semanas, resposta)
         IN [ret |-> r.ret, msgs |-> r.msgs, raised |-> r.raised,
             agrupado |-> r.agrupado, http |-> 1,
             origem |-> IF r.raised THEN -1 ELSE t,
             cache |-> IF r.raised THEN store
                       ELSE [store EXCEPT ![ativo_nome] =
                               [vazio |-> FALSE, valor |-> r.ret,
                                msgs |-> r.msgs, guardado_em |-> t]]]

(***************************************************************************)
(* The shell, lines 67-147: what one execution of the script renders.      *)
(***************************************************************************)
AvisoHK50 == [tipo |-> "warning", texto |-> "HK50 nao disponivel no relatorio COT"]
AvisoNaoCarregou ==
    [tipo |-> "warning", texto |-> "Nao foi possivel carregar os dados da API"]
Excecao == [tipo |-> "exception", texto |-> "KeyError"]

\* lines 81-94
interpretacao(ultima_liquida, mudanca) ==
    [tipo |-> "info",
     posicao |-> IF ultima_liquida > 0 THEN "NET COMPRADOS"
                 ELSE IF ultima_liquida < 0 THEN "NET VENDIDOS"
                 ELSE "neutra",
     variacao |-> IF mudanca > 0 THEN "aumentaram"
                  ELSE IF mudanca < 0 THEN "reduziram"
                  ELSE "nenhuma",
     contratos |-> IF mudanca < 0 THEN -mudanca ELSE mudanca]

\* lines 108-113: the display copy; formatar(x) is kept as the value it scales
df_exibir(df) ==
    [i \in 1..Len(df) |->
        [Data |-> df[i].Data,
         Longs |-> df[i].Longs, Shorts |-> df[i].Shorts,
         OpenInterest |-> df[i].OpenInterest,
         Liquida |-> df[i].Liquida,
         MarcaLiquida |-> IF df[i].Liquida > 0 THEN "verde +" ELSE "vermelho",
         Mudanca |-> df[i].Mudanca,
         MarcaMudanca |-> IF df[i].Mudanca > 0 THEN "sobe +"
                          ELSE IF df[i].Mudanca < 0 THEN "desce"
                          ELSE "0"]]

\* lines 75-145
widgets(df, ativo_selecionado, num_semanas) ==
    LET ultima_liquida == df[Len(df)].Liquida
        mudanca == df[Len(df)].Mudanca
    IN << [tipo |-> "subheader", num_semanas |-> num_semanas,
           ativo |-> ativo_selecionado],
          interpretacao(ultima_liquida, mudanca),
          [tipo |-> "metric", rotulo |-> "Posicao Liquida Atual",
           valor |-> ultima_liquida],
          [tipo |-> "metric", rotulo |-> "Mudanca na Semana", valor |-> mudanca],
          [tipo |-> "metric", rotulo |-> "Ultima Data", valor |-> df[Len(df)].Data],
          [tipo |-> "dataframe", linhas |-> df_exibir(df)],
          [tipo |-> "plotly_chart", num_semanas |-> num_semanas,
           pontos |-> [i \in 1..Len(df) |-> <<df[i].Data, df[i].Liquida>>]],
          [tipo |-> "download_button", data |-> df, ativo |-> ativo_selecionado] >>

\* lines 68-69: the placeholder instrument
execucao_hk50(ativo_selecionado, num_semanas, store, t) ==
    [ativo |-> ativo_selecionado, num_semanas |-> num_semanas, em |-> t,
     chamou |-> FALSE, http |-> 0, erro |-> "nenhum", status |-> -1,
     json |-> <<>>,
     origem |-> -1, ret |-> None, agrupado |-> <<>>,
     tela |-> <<AvisoHK50>>, cache |-> store]

\* lines 70-147: the instruments with a match string
execucao_pipeline(ativo_selecionado, num_semanas, store, t, resposta) ==
    LET c == cache_data(store, t, ativos_disponiveis(ativo_selecionado).nome,
                        num_semanas, resposta)
    IN [ativo |-> ativo_selecionado, num_semanas |-> num_semanas, em |-> t,
        chamou |-> TRUE, http |-> c.http,
        erro |-> IF c.http = 0 THEN "nenhum" ELSE resposta.erro,
        status |-> IF c.http = 0 THEN -1 ELSE resposta.status,
        json |-> IF c.http = 0 THEN <<>> ELSE resposta.json,
        origem |-> c.origem, ret |-> c.ret, agrupado |-> c.agrupado,
        tela |-> IF c.raised THEN <<Excecao>>
                 ELSE IF c.ret.none THEN c.msgs \o <<AvisoNaoCarregou>>
                 ELSE c.msgs \o widgets(c.ret.linhas, ativo_selecionado,
                                        num_semanas),
        cache |-> c.cache]

\* as script, without the else of line 70: after the warning the script goes
\* on to call buscar_dados_cot(None), which fetches and then raises
script_sem_else(ativo_selecionado, num_semanas, store, t, resposta) ==
    IF ativos_disponiveis(ativo_selecionado).none
    THEN [execucao_hk50(ativo_selecionado, num_semanas, store, t)
            EXCEPT !.chamou = TRUE, !.http = 1, !.tela = <<AvisoHK50, Excecao>>]
    ELSE execucao_pipeline(ativo_selecionado, num_semanas, store, t, resposta)

\* one execution of the script
script(ativo_selecionado, num_semanas, store, t, resposta) ==
    IF ativos_disponiveis(ativo_selecionado).none
    THEN execucao_hk50(ativo_selecionado, num_semanas, store, t)
    ELSE execucao_pipeline(ativo_selecionado, num_semanas, store, t, resposta)

\* the record of an execution: everything but the store it left
registo(e) ==
    [ativo |-> e.ativo, num_semanas |-> e.num_semanas, em |-> e.em,
     chamou |-> e.chamou, http |-> e.http, erro |-> e.erro, status |-> e.status,
     json |-> e.json, origem |-> e.origem, ret |-> e.ret,
     agrupado |-> e.agrupado, tela |-> e.tela]

(***************************************************************************)
(* The dashboard: a long-running Streamlit process.                        *)
(***************************************************************************)
SemCalculo == [feito |-> FALSE]

\* the provider's dataset after its first k reports
RECURSIVE Historico(_)
Historico(k) == IF k = 0 THEN <<>> ELSE RelatorioDaSemana(k) \o Historico(k - 1)

\* the number of report dates in a dataset
publicados(ds) == Cardinality({ds[i].report_date_as_yyyy_mm_dd : i \in 1..Len(ds)})

Init ==
    /\ dados = Historico(MaxRelatorios - 1)
    /\ cache = CacheVazio
    /\ agora = 0
    /\ ticks = 0
    /\ hist = <<>>
    /\ calc = SemCalculo

\* the provider publishes the report of the next week
Publicar ==
    /\ publicados(dados) < MaxRelatorios
    /\ dados' = RelatorioDaSemana(publicados(dados) + 1) \o dados
    /\ UNCHANGED <<cache, agora, ticks, hist, calc>>

\* half a day passes
Passar ==
    /\ ticks < MaxTicks
    /\ ticks' = ticks + 1
    /\ agora' = agora + ttl \div 2
    /\ UNCHANGED <<dados, cache, hist, calc>>

\* the user picks an instrument and a week count: the script runs
Executar(ativo_selecionado, num_semanas, resposta) ==
    /\ Len(hist) < MaxRuns
    /\ LET e == script(ativo_selecionado, num_semanas, cache, agora, resposta)
       IN /\ cache' = e.cache
          /\ hist' = Append(hist, registo(e))
    /\ UNCHANGED <<dados, agora, ticks, calc>>

Next ==
    \/ Publicar
    \/ Passar
    \/ \E a \in Ativos, n \in NumSemanas, r \in Respostas(dados) : Executar(a, n, r)

Spec == Init /\ [][Next]_vars

(***************************************************************************)
(* One execution of the script in a fresh process (empty store), over any  *)
(* history the provider may have published by then.                        *)
(***************************************************************************)
InitCalculo ==
    /\ dados = <<>>
    /\ cache = CacheVazio
    /\ agora = 0
    /\ ticks = 0
    /\ hist = <<>>
    /\ calc = SemCalculo

\* the provider publishes report r for the next week
PublicarRelatorio(r) ==
    /\ ~calc.feito
    /\ publicados(dados) < MaxRelatorios
    /\ dados' = r \o dados
    /\ UNCHANGED <<cache, agora, ticks, hist, calc>>

\* the process starts and the script runs once; the provider answers 200
Calcular(ativo_selecionado, num_semanas) ==
    /\ ~calc.feito
    /\ dados # <<>>
    /\ LET resposta == [erro |-> "nenhum", status |-> 200,
                        json |-> SubSeq(dados, 1, Min(Len(dados), limit))]
           e == script(ativo_selecionado, num_semanas, CacheVazio, agora, resposta)
       IN calc' = [feito |-> TRUE, exec |-> registo(e)]
    /\ UNCHANGED <<dados, cache, agora, ticks, hist>>

NextCalculo ==
    \/ \E r \in RelatoriosSemanais(publicados(dados) + 1) : PublicarRelatorio(r)
    \/ \E a \in Ativos, n \in NumSemanas : Calcular(a, n)

SpecCalculo == InitCalculo /\ [][NextCalculo]_vars

(***************************************************************************)
(* Vocabulary of the properties.                                           *)
(***************************************************************************)
TiposDeDados == {"subheader", "info", "metric", "dataframe", "plotly_chart",
                 "download_button"}

\* the execution issued the GET and it failed: no answer, or a non-2xx status
Falhou(e) == e.http = 1 /\ (e.erro # "nenhum" \/ e.status \notin 200..299)

\* the execution issued the GET and it was answered with a 2xx status
Respondeu2xx(e) == e.http = 1 /\ e.erro = "nenhum" /\ e.status \in 200..299

\* the execution rendered the data section
MostrouDados(e) == \E k \in 1..Len(e.tela) : e.tela[k].tipo \in TiposDeDados

\* the dates of a frame
DatasDe(df) == {df[i].Data : i \in 1..Len(df)}

\* the frame is in strictly ascending date order
Crescente(df) == \A i \in 1..Len(df) - 1 : df[i].Data < df[i + 1].Data

\* the positions of the payload rows that match the instrument
Casadas(json, ativo_nome) == {i \in 1..Len(json) : casa(json[i], ativo_nome)}

\* the total of a numeric field over the matching rows of one report date
RECURSIVE Total(_, _, _, _)
Total(json, I, d, campo) ==
    IF I = {} THEN 0
    ELSE LET i == CHOOSE x \in I : TRUE
         IN (IF to_datetime(json[i].report_date_as_yyyy_mm_dd) = d
             THEN astype_int(json[i][campo]) ELSE 0)
            + Total(json, I \ {i}, d, campo)

\* the fresh-process execution produced a series
Calculou == calc.feito /\ ~calc.exec.ret.none

(***************************************************************************)
(* C1: in the series buscar_dados_cot returns (ascending by date), the     *)
(* change of the earliest date is 0 and every later record's change is its *)
(* net minus the net of the previous, older date.                          *)
(***************************************************************************)
C1_MudancaSobreAnterior ==
    Calculou =>
        LET s == calc.exec.ret.linhas
        IN /\ s[1].Mudanca = 0
           /\ \A i \in 2..Len(s) : s[i].Mudanca = s[i].Liquida - s[i - 1].Liquida

(***************************************************************************)
(* C3: an uncached computation with week count N over grouped records of D *)
(* distinct dates returns exactly min(N, D) records, the most recent ones, *)
(* in strictly ascending date order.                                       *)
(***************************************************************************)
C3_JanelaMaisRecente ==
    Calculou =>
        LET s == calc.exec.ret.linhas
            g == calc.exec.agrupado
            N == calc.exec.num_semanas
        IN /\ calc.exec.http = 1
           /\ Len(s) = Min(N, Len(g))
           /\ Crescente(s)
           /\ DatasDe(s) \subseteq DatasDe(g)
           /\ \A d \in DatasDe(g) \ DatasDe(s) : \A k \in DatasDe(s) : d < k

\* a computation that dropped the oldest of five dates
C3_Witness ==
    /\ Calculou
    /\ calc.exec.num_semanas = 4
    /\ Len(calc.exec.agrupado) = 5
    /\ Len(calc.exec.ret.linhas) = 4
    /\ calc.exec.ret.linhas[1].Data = calc.exec.agrupado[2].Data

(***************************************************************************)
(* C9: grouping yields exactly one record per distinct report date among   *)
(* the rows that matched the instrument, no date twice, none dropped, none *)
(* from non-matching rows only; longs, shorts and open interest are the    *)
(* sums over the matched rows of the date, and net = longs - shorts.       *)
(***************************************************************************)
C9_UmRegistoPorData ==
    Calculou =>
        LET json == calc.exec.json
            g == calc.exec.agrupado
            s == calc.exec.ret.linhas
            I == Casadas(json, ativos_disponiveis(calc.exec.ativo).nome)
        IN /\ DatasDe(g) = {to_datetime(json[i].report_date_as_yyyy_mm_dd) : i \in I}
           /\ Cardinality(DatasDe(g)) = Len(g)
           /\ \A k \in 1..Len(g) :
                /\ g[k].Longs = Total(json, I, g[k].Data, "noncomm_positions_long_all")
                /\ g[k].Shorts = Total(json, I, g[k].Data, "noncomm_positions_short_all")
                /\ g[k].OpenInterest = Total(json, I, g[k].Data, "open_interest_all")
           /\ \A k \in 1..Len(s) :
                /\ s[k].Liquida = s[k].Longs - s[k].Shorts
                /\ \E m \in 1..Len(g) :
                     /\ g[m].Data = s[k].Data
                     /\ g[m].Longs = s[k].Longs
                     /\ g[m].Shorts = s[k].Shorts
                     /\ g[m].OpenInterest = s[k].OpenInterest

\* a payload with two matching rows of one date, and a date that only
\* non-matching rows carry
C9_Witness ==
    /\ Calculou
    /\ LET json == calc.exec.json
           I == Casadas(json, ativos_disponiveis(calc.exec.ativo).nome)
       IN /\ \E i \in I, j \in I :
               /\ i # j
               /\ json[i].report_date_as_yyyy_mm_dd = json[j].report_date_as_yyyy_mm_dd
          /\ \E i \in 1..Len(json) :
               /\ i \notin I
               /\ \A j \in I : json[j].report_date_as_yyyy_mm_dd
                               # json[i].report_date_as_yyyy_mm_dd

(***************************************************************************)
(* C10: in every non-empty series returned, the record of the most recent  *)
(* date has change 0; so whenever data is rendered the "change this week"  *)
(* metric is 0 and the interpretation ends with the no-variation clause.   *)
(***************************************************************************)
C10_UltimaMudancaZero ==
    Calculou =>
        LET s == calc.exec.ret.linhas
            tela == calc.exec.tela
        IN /\ s[Len(s)].Mudanca = 0
           /\ \A k \in 1..Len(tela) :
                /\ tela[k].tipo = "info" => tela[k].variacao = "nenhuma"
                /\ (tela[k].tipo = "metric" /\ tela[k].rotulo = "Mudanca na Semana")
                      => tela[k].valor = 0

\* a rendered series whose older records do carry a change
C10_Witness ==
    /\ Calculou
    /\ MostrouDados(calc.exec)
    /\ Len(calc.exec.ret.linhas) >= 2
    /\ calc.exec.ret.linhas[1].Mudanca # 0
    /\ calc.exec.ret.linhas[Len(calc.exec.ret.linhas)].Liquida
         # calc.exec.ret.linhas[Len(calc.exec.ret.linhas) - 1].Liquida

(***************************************************************************)
(* Vocabulary of the properties of the long-running dashboard.             *)
(***************************************************************************)
\* execution i ended in one of the two error messages of buscar_dados_cot
TerminouEmErro(e) ==
    \E k \in 1..Len(e.tela) :
        e.tela[k] \in {ErroRequisicao, ErroNenhumDado(ativos_disponiveis(e.ativo).nome)}

\* execution e was served by a store entry (its own or an older one) that is
\* still valid at time t
EntradaValida(e, t) == e.origem >= 0 /\ t < e.origem + ttl

(***************************************************************************)
(* C2: whatever ran before, the series rendered by an execution with week  *)
(* count N holds at most N records, the N most recent dates: the records   *)
(* are derived anew for the N of the current execution.                    *)
(***************************************************************************)
C2_NoMaximoNumSemanas ==
    \A i \in 1..Len(hist) :
        MostrouDados(hist[i]) =>
            /\ Len(hist[i].ret.linhas) <= hist[i].num_semanas
            /\ \E k \in 1..Len(hist[i].tela) :
                 /\ hist[i].tela[k].tipo = "dataframe"
                 /\ Len(hist[i].tela[k].linhas) <= hist[i].num_semanas

C5_ErroNaoPersiste ==
    \A i \in 1..Len(hist), j \in 1..Len(hist) :
        (/\ i < j
         /\ hist[i].ativo = hist[j].ativo
         /\ TerminouEmErro(hist[i]))
        => hist[j].http = 1

(***************************************************************************)
(* C6: an execution for the instrument mapped to None shows the advisory   *)
(* warning and nothing else, does not call buscar_dados_cot, issues no     *)
(* HTTP request and leaves the store as it was; an execution for any other *)
(* instrument calls buscar_dados_cot.                                      *)
(***************************************************************************)
C6_HK50SemPipeline ==
    [][Len(hist') > Len(hist) =>
         LET e == hist'[Len(hist')]
         IN IF ativos_disponiveis(e.ativo).none
            THEN /\ e.tela = <<AvisoHK50>>
                 /\ ~e.chamou
                 /\ e.http = 0
                 /\ cache' = cache
            ELSE e.chamou]_vars

\* the placeholder selected while the store holds an entry
C6_Witness ==
    /\ Len(hist) >= 2
    /\ ~ativos_disponiveis(hist[1].ativo).none
    /\ hist[1].http = 1
    /\ ativos_disponiveis(hist[2].ativo).none
    /\ hist[2].tela = <<AvisoHK50>>
    /\ \E k \in Chaves : ~cache[k].vazio

(***************************************************************************)
(* C7 (as claimed): when the HTTP GET fails, the execution shows the       *)
(* connectivity error and renders nothing after it.                        *)
(***************************************************************************)
C7_NadaDepoisDoErro ==
    \A i \in 1..Len(hist) :
        Falhou(hist[i]) => hist[i].tela = <<ErroRequisicao>>

(***************************************************************************)
(* C7 (amended): when the HTTP GET fails, the execution shows the          *)
(* connectivity error followed only by the generic could-not-load warning; *)
(* buscar_dados_cot returns None and no data widget is rendered.           *)
(***************************************************************************)
C7_ErroSeguidoDeAviso ==
    \A i \in 1..Len(hist) :
        Falhou(hist[i]) =>
            /\ hist[i].tela = <<ErroRequisicao, AvisoNaoCarregou>>
            /\ hist[i].ret.none
            /\ ~MostrouDados(hist[i])

\* a failed GET
C7_Witness ==
    \E i \in 1..Len(hist) :
        /\ Falhou(hist[i])
        /\ hist[i].http = 1
        /\ hist[i].tela[1] = ErroRequisicao

(***************************************************************************)
(* C8: when the fetch succeeds but no row's market name contains the match *)
(* string, the execution shows the no-data error (not the connectivity     *)
(* error), buscar_dados_cot returns None without grouping, and no data     *)
(* widget is rendered.                                                     *)
(***************************************************************************)
C8_SemDadosParaAtivo ==
    \A i \in 1..Len(hist) :
        (/\ Respondeu2xx(hist[i])
         /\ Casadas(hist[i].json, ativos_disponiveis(hist[i].ativo).nome) = {})
        => /\ Len(hist[i].tela) >= 1
           /\ hist[i].tela[1] = ErroNenhumDado(ativos_disponiveis(hist[i].ativo).nome)
           /\ hist[i].tela[1] # ErroRequisicao
           /\ hist[i].ret.none
           /\ hist[i].agrupado = <<>>
           /\ ~MostrouDados(hist[i])

====
